---- MODULE Spec2Model ----
(***************************************************************************)
(* Model of the Unpod desktop shell (apps/unpod-tauri/src-tauri/src/       *)
(* main.rs): backend process supervision (start_server / stop_server and   *)
(* the setup closure of main), the notification command                    *)
(* (show_notification) and the badge command (update_notification_badge).  *)
(*                                                                         *)
(* Option<T> values are modelled as sequences: None is << >> and Some(x)   *)
(* is << x >>.                                                             *)
(***************************************************************************)
EXTENDS Integers, Sequences, FiniteSets, TLC

VARIABLES
    debug_assertions,   \* cfg!(debug_assertions): TRUE in a development build
    target_os,          \* cfg!(target_os = ...)
    pc,                 \* position of the application: the steps of setup, then running / exited
    server_process,     \* AppState.server_process : Mutex<Option<u32>>
    start_env,          \* Some(what the environment answered to start_server)
    start_result,       \* what start_server returns to setup (<< >> before the call)
    setup_log,          \* the steps of setup completed so far, in order
    dialog_shown,       \* the blocking "Server Start Error" dialog was shown
    commands,           \* the kill / taskkill commands run by stop_server, in order
    stop_calls,         \* the pids stop_server was called with, in order
    close_events,       \* number of close-requested events delivered
    last_show,          \* record of the last show_notification invocation
    prev_show,          \* Some(error message) returned by the invocation before it
    main_tray,          \* app.tray_by_id("main-tray") is Some
    main_window,        \* app.get_webview_window("main") is Some
    notification_count, \* AppState.notification_count : Mutex<u32>
    tray_tooltip,       \* tooltip shown by the tray icon
    window_title,       \* title of the main window
    badge_count,        \* OS badge of the main window (Option<i64>)
    last_badge,         \* record of the last update_notification_badge invocation
    count_lock,         \* holder of the notification_count mutex: None or Some(thread)
    badge_thread,       \* per thread: position in update_notification_badge, count, env
    lock_log,           \* the invocations that took the mutex, in the order they took it
    window,             \* the main window: [visible, minimized, focused]
    focus_event,        \* a WindowEvent::Focused(true) is waiting to be dispatched
    last_event,         \* Some(record of the last window event or command handled)
    focus_chain,        \* Focused(true) handlers run in a row since another handler ran
    store_open,         \* the store "session.json" is loaded in this process
    session_mem,        \* the store's in-memory map, key -> JSON value
    session_disk,       \* the durable blob session.json, key -> JSON value
    last_session        \* Some(record of the last session command)

buildVars  == << debug_assertions, target_os >>
lifeVars   == << pc, server_process, start_env, start_result, setup_log, dialog_shown,
                 commands, stop_calls, close_events >>
notifyVars == << last_show, prev_show >>
badgeVars  == << main_tray, main_window, notification_count, tray_tooltip, window_title,
                 badge_count, last_badge, count_lock, badge_thread, lock_log >>
windowVars == << window, focus_event, last_event, focus_chain >>
sessionVars == << store_open, session_mem, session_disk, last_session >>
vars == << debug_assertions, target_os, pc, server_process, start_env, start_result,
           setup_log, dialog_shown, commands, stop_calls, close_events, last_show,
           prev_show, main_tray, main_window, notification_count, tray_tooltip,
           window_title, badge_count, last_badge, count_lock, badge_thread, lock_log,
           window, focus_event, last_event, focus_chain,
           store_open, session_mem, session_disk, last_session >>

----------------------------------------------------------------------------
(* Bounds *)

\* process ids the OS may give to the spawned backend: 1..MaxPid
MaxPid == 2
\* close-requested events delivered in one run
MaxClose == 2
\* badge counts 0..MaxCount, and one count of several digits
MaxCount == 3
LargeCount == 12
\* threads that run update_notification_badge concurrently, one invocation each
MaxThreads == 2
\* Focused(true) handlers counted in a row (the count stops there)
MaxChain == 3

TargetOs == {"windows", "macos", "linux"}

None == << >>
Some(x) == << x >>

----------------------------------------------------------------------------
(* Backend process supervisor *)

\* What the environment answers to the calls start_server makes. script_utf8:
\* the path of server.js is valid UTF-8, so that to_str() returns Some.
StartEnv ==
    [resource_dir_ok : BOOLEAN, server_dir_exists : BOOLEAN, node_path_ok : BOOLEAN,
     node_exists : BOOLEAN, script_utf8 : BOOLEAN, spawn_ok : BOOLEAN,
     child_pid : 1..MaxPid]

\* Ok(pid), Err(..), and a panic inside start_server (no Result is returned).
StartOk(pid, trace) ==
    [ok |-> TRUE, panicked |-> FALSE, pid |-> pid, err |-> "", trace |-> trace]
StartErr(err, trace) ==
    [ok |-> FALSE, panicked |-> FALSE, pid |-> 0, err |-> err, trace |-> trace]
StartPanic(trace) ==
    [ok |-> FALSE, panicked |-> TRUE, pid |-> 0, err |-> "panic", trace |-> trace]

\* Resolution of the bundled Node.js binary: the parent of the resource
\* directory (macOS) or the directory of the current executable (Windows) may
\* be unavailable; on Linux the path is resource_dir.join("node").
node_path(env) ==
    IF target_os = "macos"
    THEN [ok |-> env.node_path_ok, path |-> "Contents/MacOS/node"]
    ELSE IF target_os = "windows"
    THEN [ok |-> env.node_path_ok, path |-> "node.exe"]
    ELSE [ok |-> TRUE, path |-> "resources/node"]

\* Command::new(&node_path).arg(server_script.to_str().unwrap())...spawn()?,
\* child.id(), thread::sleep, Ok(pid); after the calls of the trace before.
Launch(env, before) ==
    IF ~env.script_utf8
    THEN StartPanic(Append(before, "to_str(server_script)"))
    ELSE IF ~env.spawn_ok
    THEN StartErr("spawn", before \o << "to_str(server_script)", "spawn" >>)
    ELSE StartOk(env.child_pid, before \o << "to_str(server_script)", "spawn", "sleep" >>)

\* Mutant: the server directory is checked in development too.
start_server_DevChecks(env) ==
    IF ~env.resource_dir_ok
    THEN StartErr("resource_dir", << "resource_dir" >>)
    ELSE IF ~env.server_dir_exists
    THEN StartErr("Server directory not found", << "resource_dir", "exists(server_dir)" >>)
    ELSE IF debug_assertions
    THEN StartOk(0, << "resource_dir", "exists(server_dir)" >>)
    ELSE IF ~node_path(env).ok
    THEN StartErr("node_path",
                  << "resource_dir", "exists(server_dir)", "resolve(node_path)" >>)
    ELSE IF ~env.node_exists
    THEN StartErr("Bundled Node.js not found",
                  << "resource_dir", "exists(server_dir)", "resolve(node_path)",
                     "exists(node_path)" >>)
    ELSE Launch(env, << "resource_dir", "exists(server_dir)", "resolve(node_path)",
                        "exists(node_path)" >>)

\* Mutant: the runtime binary is resolved and checked before the server directory.
start_server_NodeFirst(env) ==
    IF debug_assertions
    THEN StartOk(0, << >>)
    ELSE IF ~env.resource_dir_ok
    THEN StartErr("resource_dir", << "resource_dir" >>)
    ELSE IF ~node_path(env).ok
    THEN StartErr("node_path", << "resource_dir", "resolve(node_path)" >>)
    ELSE IF ~env.node_exists
    THEN StartErr("Bundled Node.js not found",
                  << "resource_dir", "resolve(node_path)", "exists(node_path)" >>)
    ELSE IF ~env.server_dir_exists
    THEN StartErr("Server directory not found",
                  << "resource_dir", "resolve(node_path)", "exists(node_path)",
                     "exists(server_dir)" >>)
    ELSE Launch(env, << "resource_dir", "resolve(node_path)", "exists(node_path)",
                        "exists(server_dir)" >>)

\* start_server: the value it returns, or its panic, and the calls it made
\* on the way.
start_server(env) ==
    IF debug_assertions
    THEN StartOk(0, << >>)
    ELSE IF ~env.resource_dir_ok
    THEN StartErr("resource_dir", << "resource_dir" >>)
    ELSE IF ~env.server_dir_exists
    THEN StartErr("Server directory not found", << "resource_dir", "exists(server_dir)" >>)
    ELSE IF ~node_path(env).ok
    THEN StartErr("node_path",
                  << "resource_dir", "exists(server_dir)", "resolve(node_path)" >>)
    ELSE IF ~env.node_exists
    THEN StartErr("Bundled Node.js not found",
                  << "resource_dir", "exists(server_dir)", "resolve(node_path)",
                     "exists(node_path)" >>)
    ELSE Launch(env, << "resource_dir", "exists(server_dir)", "resolve(node_path)",
                        "exists(node_path)" >>)

\* The answers start_server actually obtained: a call it did not make has no
\* answer (FALSE, and pid 0 when nothing was spawned).
Asked(trace, call) == \E i \in 1..Len(trace) : trace[i] = call
Consulted(env, r) ==
    [resource_dir_ok |-> Asked(r.trace, "resource_dir") /\ env.resource_dir_ok,
     server_dir_exists |-> Asked(r.trace, "exists(server_dir)") /\ env.server_dir_exists,
     node_path_ok |-> Asked(r.trace, "resolve(node_path)") /\ node_path(env).ok,
     node_exists |-> Asked(r.trace, "exists(node_path)") /\ env.node_exists,
     script_utf8 |-> Asked(r.trace, "to_str(server_script)") /\ env.script_utf8,
     spawn_ok |-> Asked(r.trace, "spawn") /\ env.spawn_ok,
     child_pid |-> r.pid]

\* The command stop_server runs on this platform for a non-zero pid.
\* taskkill /PID <pid> /F on Windows; kill <pid>, with no signal option, elsewhere.
KillCommand(pid) ==
    IF target_os = "windows"
    THEN [prog |-> "taskkill", pid |-> pid, flags |-> << "/F" >>]
    ELSE [prog |-> "kill", pid |-> pid, flags |-> << >>]

\* Mutant: the early return for pid 0 is missing.
stop_server_NoSentinel(pid) == << KillCommand(pid) >>

\* stop_server: the commands it runs (their results are discarded).
stop_server(pid) == IF pid = 0 THEN << >> ELSE << KillCommand(pid) >>

\* The signal a command of stop_server delivers: taskkill with /F terminates
\* the process forcefully, without /F it asks the process to close; kill
\* without a signal option sends SIGTERM, which the process may handle or ignore.
Signal(cmd) ==
    IF cmd.prog = "taskkill"
    THEN (IF \E i \in 1..Len(cmd.flags) : cmd.flags[i] = "/F" THEN "FORCE" ELSE "CLOSE")
    ELSE (IF cmd.flags = << >> THEN "SIGTERM"
          ELSE IF cmd.flags = << "-9" >> THEN "SIGKILL" ELSE "OTHER")

Forceful(cmd) == Signal(cmd) \in {"FORCE", "SIGKILL"}

----------------------------------------------------------------------------
(* Application lifecycle: the setup closure of main and the shutdown paths *)

InitBuild ==
    /\ debug_assertions \in BOOLEAN
    /\ target_os \in TargetOs

InitLife ==
    /\ pc = "start_server"
    /\ server_process = None
    /\ start_env = None
    /\ start_result = << >>
    /\ setup_log = << >>
    /\ dialog_shown = FALSE
    /\ commands = << >>
    /\ stop_calls = << >>
    /\ close_events = 0

\* Mutant: the tray is built before the menu.
AfterStep_TrayFirst(step) ==
    CASE step = "start_server" -> "create_tray"
      [] step = "create_tray" -> "create_menu"
      [] step = "create_menu" -> "listen"
      [] step = "listen" -> "running"

\* The statement order of the setup closure; after the last one setup returns
\* Ok(()) and run() starts dispatching.
AfterStep(step) ==
    CASE step = "start_server" -> "create_menu"
      [] step = "create_menu" -> "create_tray"
      [] step = "create_tray" -> "listen"
      [] step = "listen" -> "running"

\* Mutant: events are dispatched while start_server sleeps.
Dispatching_DuringWait == pc \in {"running", "settle_wait"}

\* The event loop dispatches tray, menu, window and listener callbacks: setup,
\* which runs on the thread of the event loop, has returned.
Dispatching == pc = "running"

\* start_server spawned the child and reached thread::sleep.
Spawned(r) == r.ok /\ r.trace # << >> /\ r.trace[Len(r.trace)] = "sleep"

\* match start_server(..) { Ok(pid) => *server_process = Some(pid), Err(e) => .. }
SetupStored(r, old) == IF r.ok THEN Some(r.pid) ELSE old

\* setup: start_server(..) is called. When it panicked, setup and the
\* application end there. When it spawned the backend it is now in its
\* thread::sleep(2 s), on the thread that runs setup. When it returned Err in
\* a production build, the dialog is open and blocking_show() waits for the
\* user. Otherwise the match stores Some(pid) and setup goes on.
SetupStartServer ==
    /\ pc = "start_server"
    /\ \E env \in StartEnv :
         LET r == start_server(env) IN
         /\ start_env' = Some(Consulted(env, r))
         /\ start_result' = << r >>
         /\ IF r.panicked
            THEN /\ pc' = "panicked"
                 /\ UNCHANGED << server_process, dialog_shown, setup_log >>
            ELSE IF Spawned(r)
            THEN /\ pc' = "settle_wait"
                 /\ UNCHANGED << server_process, dialog_shown, setup_log >>
            ELSE IF ~r.ok /\ ~debug_assertions
            THEN /\ pc' = "error_dialog"
                 /\ dialog_shown' = TRUE
                 /\ UNCHANGED << server_process, setup_log >>
            ELSE /\ pc' = AfterStep("start_server")
                 /\ server_process' = SetupStored(r, server_process)
                 /\ dialog_shown' = FALSE
                 /\ setup_log' = Append(setup_log, "start_server")
    /\ UNCHANGED << commands, stop_calls, close_events >>
    /\ UNCHANGED << buildVars, notifyVars, badgeVars, windowVars, sessionVars >>

\* setup: the sleep of start_server ends, it returns Ok(pid) and the match
\* stores Some(pid).
SetupSettleWait ==
    /\ pc = "settle_wait"
    /\ pc' = AfterStep("start_server")
    /\ server_process' = SetupStored(start_result[1], server_process)
    /\ setup_log' = Append(setup_log, "start_server")
    /\ UNCHANGED << start_env, start_result, dialog_shown, commands, stop_calls,
                    close_events >>
    /\ UNCHANGED << buildVars, notifyVars, badgeVars, windowVars, sessionVars >>

\* setup: the user closes the "Server Start Error" dialog, blocking_show()
\* returns and the Err arm of the match ends.
SetupErrorDialogClosed ==
    /\ pc = "error_dialog"
    /\ pc' = AfterStep("start_server")
    /\ server_process' = SetupStored(start_result[1], server_process)
    /\ setup_log' = Append(setup_log, "start_server")
    /\ UNCHANGED << start_env, start_result, dialog_shown, commands, stop_calls,
                    close_events >>
    /\ UNCHANGED << buildVars, notifyVars, badgeVars, windowVars, sessionVars >>

\* setup: create_menu(..).expect(..); app.set_menu(menu).expect(..)
SetupCreateMenu ==
    /\ pc = "create_menu"
    /\ \E ok \in BOOLEAN :
         /\ pc' = IF ok THEN AfterStep("create_menu") ELSE "panicked"
         /\ setup_log' = IF ok THEN Append(setup_log, "create_menu") ELSE setup_log
    /\ UNCHANGED << server_process, start_env, start_result, dialog_shown, commands,
                    stop_calls, close_events >>
    /\ UNCHANGED << buildVars, notifyVars, badgeVars, windowVars, sessionVars >>

\* setup: create_tray(..).expect(..)
SetupCreateTray ==
    /\ pc = "create_tray"
    /\ \E ok \in BOOLEAN :
         /\ pc' = IF ok THEN AfterStep("create_tray") ELSE "panicked"
         /\ setup_log' = IF ok THEN Append(setup_log, "create_tray") ELSE setup_log
    /\ UNCHANGED << server_process, start_env, start_result, dialog_shown, commands,
                    stop_calls, close_events >>
    /\ UNCHANGED << buildVars, notifyVars, badgeVars, windowVars, sessionVars >>

\* setup: the app.listen(..) registrations, the window event handler and the
\* close-requested listener; then Ok(()) and the event loop runs.
SetupListen ==
    /\ pc = "listen"
    /\ pc' = AfterStep("listen")
    /\ setup_log' = Append(setup_log, "listen")
    /\ UNCHANGED << server_process, start_env, start_result, dialog_shown, commands,
                    stop_calls, close_events >>
    /\ UNCHANGED << buildVars, notifyVars, badgeVars, windowVars, sessionVars >>

\* The "tauri://close-requested" listener. Afterwards the window either closes,
\* which ends the application, or stays (the close was prevented, or another
\* window was closed), so the event may be delivered again.
CloseRequested ==
    /\ Dispatching
    /\ close_events < MaxClose
    /\ close_events' = close_events + 1
    /\ IF server_process # None
       THEN /\ commands' = commands \o stop_server(server_process[1])
            /\ stop_calls' = Append(stop_calls, server_process[1])
       ELSE UNCHANGED << commands, stop_calls >>
    /\ \E exits \in BOOLEAN : pc' = IF exits THEN "exited" ELSE "running"
    /\ UNCHANGED << server_process, start_env, start_result, setup_log, dialog_shown >>
    /\ UNCHANGED << buildVars, notifyVars, badgeVars, windowVars, sessionVars >>

\* Tray menu item "quit": app.exit(0).
TrayQuit ==
    /\ Dispatching
    /\ pc' = "exited"
    /\ UNCHANGED << server_process, start_env, start_result, setup_log, dialog_shown,
                    commands, stop_calls, close_events >>
    /\ UNCHANGED << buildVars, notifyVars, badgeVars, windowVars, sessionVars >>

----------------------------------------------------------------------------
(* Notification gateway: show_notification *)

\* tauri_plugin_notification::PermissionState, with every state that is
\* neither Granted nor Denied as "Prompt".
PermissionState == {"Granted", "Denied", "Prompt"}

\* permission_state() and request_permission() return Result<PermissionState>.
PermissionResult == PermissionState \cup {"Error"}

Titles == {"t1", "t2"}
Bodies == {"b1"}

\* What the environment answers to the calls show_notification makes.
ShowEnv ==
    [query : PermissionResult, request : PermissionResult, resource_dir_ok : BOOLEAN,
     icon_exists : BOOLEAN, icon_show_ok : BOOLEAN, plain_show_ok : BOOLEAN]

\* One call of app.notification().builder()...show().
Display(icon, title, body, ok) == [icon |-> icon, title |-> title, body |-> body, ok |-> ok]

\* Mutant: only an explicit denial is refused.
NotGranted_DeniedOnly(state) == state = "Denied"

\* permission_state != PermissionState::Granted
NotGranted(state) == state # "Granted"

\* Mutant: a denial seen by the current-state query is returned without asking again.
PermissionGate_CachedDenial(env) ==
    IF env.query = "Error"
    THEN [requested |-> FALSE, err |-> "Failed to check permission"]
    ELSE IF env.query = "Denied"
    THEN [requested |-> FALSE, err |-> "Notification permission not granted"]
    ELSE IF env.request = "Error"
    THEN [requested |-> TRUE, err |-> "Permission request failed"]
    ELSE IF NotGranted(env.request)
    THEN [requested |-> TRUE, err |-> "Notification permission not granted"]
    ELSE [requested |-> TRUE, err |-> ""]

\* The permission part of show_notification: the current-state query (its
\* value is only printed, its error is returned), then the request.
PermissionGate(env) ==
    IF env.query = "Error"
    THEN [requested |-> FALSE, err |-> "Failed to check permission"]
    ELSE IF env.request = "Error"
    THEN [requested |-> TRUE, err |-> "Permission request failed"]
    ELSE IF NotGranted(env.request)
    THEN [requested |-> TRUE, err |-> "Notification permission not granted"]
    ELSE [requested |-> TRUE, err |-> ""]

\* Mutant: a missing icon file is not reported as an error.
icon_result_MissingIsOk(env, title, body) ==
    IF ~debug_assertions /\ ~env.resource_dir_ok
    THEN [ok |-> FALSE, attempts |-> << >>]
    ELSE IF env.icon_exists
    THEN [ok |-> env.icon_show_ok,
          attempts |-> << Display(TRUE, title, body, env.icon_show_ok) >>]
    ELSE [ok |-> TRUE, attempts |-> << >>]

\* The icon_result closure: resolve the icon path, and display with the icon
\* if the file exists.
icon_result(env, title, body) ==
    IF ~debug_assertions /\ ~env.resource_dir_ok
    THEN [ok |-> FALSE, attempts |-> << >>]
    ELSE IF env.icon_exists
    THEN [ok |-> env.icon_show_ok,
          attempts |-> << Display(TRUE, title, body, env.icon_show_ok) >>]
    ELSE [ok |-> FALSE, attempts |-> << >>]

\* Mutant: the result of the display without icon is discarded.
DisplayResult_FallbackIgnored(env, title, body) ==
    LET i == icon_result(env, title, body) IN
    IF i.ok
    THEN [ok |-> TRUE, attempts |-> i.attempts]
    ELSE [ok |-> TRUE,
          attempts |-> Append(i.attempts, Display(FALSE, title, body, env.plain_show_ok))]

\* Mutant: the display without icon is made whatever the icon attempt returned.
DisplayResult_AlwaysFallback(env, title, body) ==
    LET i == icon_result(env, title, body) IN
    [ok |-> i.ok \/ env.plain_show_ok,
     attempts |-> Append(i.attempts, Display(FALSE, title, body, env.plain_show_ok))]

\* let result = match icon_result() { Ok => Ok, Err => display without icon }
DisplayResult(env, title, body) ==
    LET i == icon_result(env, title, body) IN
    IF i.ok
    THEN [ok |-> TRUE, attempts |-> i.attempts]
    ELSE [ok |-> env.plain_show_ok,
          attempts |-> Append(i.attempts, Display(FALSE, title, body, env.plain_show_ok))]

\* show_notification: whether request_permission was called, the display
\* attempts made, and the Result returned (err = "" for Ok(())).
show_notification(env, title, body) ==
    LET g == PermissionGate(env) IN
    IF g.err # ""
    THEN [requested |-> g.requested, attempts |-> << >>, ok |-> FALSE, err |-> g.err]
    ELSE LET d == DisplayResult(env, title, body) IN
         [requested |-> TRUE, attempts |-> d.attempts, ok |-> d.ok,
          err |-> IF d.ok THEN "" ELSE "Failed to show notification"]

InitNotify ==
    /\ last_show = << >>
    /\ prev_show = << >>

\* IPC command show_notification(title, body).
ShowNotification ==
    /\ pc = "running"
    /\ \E env \in ShowEnv, title \in Titles, body \in Bodies :
         LET r == show_notification(env, title, body) IN
         last_show' = << [env |-> env, title |-> title, body |-> body,
                          requested |-> r.requested, attempts |-> r.attempts,
                          ok |-> r.ok, err |-> r.err] >>
    /\ prev_show' = IF last_show = << >> THEN << >> ELSE << last_show[1].err >>
    /\ UNCHANGED << buildVars, lifeVars, badgeVars, windowVars, sessionVars >>

----------------------------------------------------------------------------
(* Tray and menu controller: update_notification_badge *)

\* Title of the main window before the first badge update (window configuration).
ConfigTitle == "Unpod"

BadgeCounts == (0..MaxCount) \cup {LargeCount}

\* Results of tray.set_tooltip, window.set_title and window.set_badge_count.
BadgeEnv == [tooltip_ok : BOOLEAN, title_ok : BOOLEAN, badge_ok : BOOLEAN]

Digit(d) ==
    CASE d = 0 -> "0" [] d = 1 -> "1" [] d = 2 -> "2" [] d = 3 -> "3" [] d = 4 -> "4"
      [] d = 5 -> "5" [] d = 6 -> "6" [] d = 7 -> "7" [] d = 8 -> "8" [] d = 9 -> "9"

\* format!("{}", count) for a u32: its decimal digits.
RECURSIVE Dec(_)
Dec(n) == IF n < 10 THEN Digit(n) ELSE Dec(n \div 10) \o Digit(n % 10)

tooltip_text(count) ==
    IF count > 0
    THEN "Unpod - " \o Dec(count) \o " unread notification" \o (IF count > 1 THEN "s" ELSE "")
    ELSE "Unpod"

title_text(count) == IF count > 0 THEN "(" \o Dec(count) \o ") Unpod" ELSE "Unpod"

\* if count > 0 { Some(count as i64) } else { None }
badge_value(count) == IF count > 0 THEN Some(count) ELSE None

\* update_notification_badge: the stored count, the argument of each setter
\* it called (None when the tray or the window is absent), the surfaces after
\* the call (a setter that fails leaves its surface as it was) and the Result.
update_notification_badge(count, env) ==
    [count |-> count,
     tooltip_call |-> IF main_tray THEN Some(tooltip_text(count)) ELSE None,
     title_call |-> IF main_window THEN Some(title_text(count)) ELSE None,
     badge_call |-> IF main_window THEN Some(badge_value(count)) ELSE None,
     tooltip |-> IF main_tray /\ env.tooltip_ok THEN tooltip_text(count) ELSE tray_tooltip,
     title |-> IF main_window /\ env.title_ok THEN title_text(count) ELSE window_title,
     badge |-> IF main_window /\ env.badge_ok THEN badge_value(count) ELSE badge_count,
     ok |-> TRUE]

Threads == 1..MaxThreads

\* Counts of the concurrent invocations: cleared, singular, plural.
ConcurrentCounts == {0, 1, 2}

BadgeEnvOk == [tooltip_ok |-> TRUE, title_ok |-> TRUE, badge_ok |-> TRUE]

\* state.notification_count.lock() returns when no other thread holds the guard.
CanLock == count_lock = None

\* The id update_notification_badge looks the tray up by, and the id of the
\* tray create_tray builds: TrayIconBuilder::new() takes no id, the tray gets
\* one generated by the framework.
TrayLookupId == "main-tray"
BuiltTrayId == "generated"

InitBadge ==
    /\ main_tray = (BuiltTrayId = TrayLookupId)
    /\ main_window \in BOOLEAN
    /\ notification_count = 0
    /\ tray_tooltip = "Unpod"
    /\ window_title = ConfigTitle
    /\ badge_count = None
    /\ last_badge = << >>
    /\ count_lock = None
    /\ badge_thread = [t \in Threads |-> [pc |-> "idle", count |-> 0, env |-> BadgeEnvOk]]
    /\ lock_log = << >>

\* IPC command update_notification_badge(count).
UpdateNotificationBadge ==
    /\ pc = "running"
    /\ CanLock
    /\ \E count \in BadgeCounts, env \in BadgeEnv :
         LET r == update_notification_badge(count, env) IN
         /\ notification_count' = r.count
         /\ tray_tooltip' = r.tooltip
         /\ window_title' = r.title
         /\ badge_count' = r.badge
         /\ last_badge' = << [count |-> count, env |-> env, tooltip_call |-> r.tooltip_call,
                               title_call |-> r.title_call, badge_call |-> r.badge_call,
                               ok |-> r.ok] >>
    /\ UNCHANGED << main_tray, main_window, count_lock, badge_thread, lock_log >>
    /\ UNCHANGED << buildVars, lifeVars, notifyVars, windowVars, sessionVars >>

\* update_notification_badge run by several threads, statement by statement.
\* The guard returned by lock() lives to the end of the function body.
Surfaces == [tooltip |-> tray_tooltip, title |-> window_title, badge |-> badge_count]

BadgeStep(t, at, to) ==
    /\ pc = "running"
    /\ badge_thread[t].pc = at
    /\ badge_thread' = [badge_thread EXCEPT ![t].pc = to]

\* The command is invoked with its argument on thread t.
BadgeInvoke(t) ==
    /\ pc = "running"
    /\ badge_thread[t].pc = "idle"
    /\ \E count \in ConcurrentCounts, env \in BadgeEnv :
         badge_thread' = [badge_thread EXCEPT ![t] = [pc |-> "lock", count |-> count,
                                                     env |-> env]]
    /\ UNCHANGED << main_tray, main_window, notification_count, tray_tooltip, window_title,
                    badge_count, last_badge, count_lock, lock_log >>
    /\ UNCHANGED << buildVars, lifeVars, notifyVars, windowVars, sessionVars >>

\* let mut notification_count = state.notification_count.lock().unwrap();
\* *notification_count = count;
BadgeLock(t) ==
    /\ BadgeStep(t, "lock", "tooltip")
    /\ CanLock
    /\ count_lock' = Some(t)
    /\ notification_count' = badge_thread[t].count
    /\ lock_log' = Append(lock_log, [thread |-> t, count |-> badge_thread[t].count,
                                      env |-> badge_thread[t].env, before |-> Surfaces])
    /\ UNCHANGED << main_tray, main_window, tray_tooltip, window_title, badge_count,
                    last_badge >>
    /\ UNCHANGED << buildVars, lifeVars, notifyVars, windowVars, sessionVars >>

\* if let Some(tray) = app.tray_by_id("main-tray") { .. let _ = tray.set_tooltip(..) }
BadgeTooltip(t) ==
    /\ BadgeStep(t, "tooltip", "title")
    /\ tray_tooltip' = IF main_tray /\ badge_thread[t].env.tooltip_ok
                       THEN tooltip_text(badge_thread[t].count) ELSE tray_tooltip
    /\ UNCHANGED << main_tray, main_window, notification_count, window_title, badge_count,
                    last_badge, count_lock, lock_log >>
    /\ UNCHANGED << buildVars, lifeVars, notifyVars, windowVars, sessionVars >>

\* if let Some(window) = .. { .. let _ = window.set_title(&title);
BadgeTitle(t) ==
    /\ BadgeStep(t, "title", "badge")
    /\ window_title' = IF main_window /\ badge_thread[t].env.title_ok
                       THEN title_text(badge_thread[t].count) ELSE window_title
    /\ UNCHANGED << main_tray, main_window, notification_count, tray_tooltip, badge_count,
                    last_badge, count_lock, lock_log >>
    /\ UNCHANGED << buildVars, lifeVars, notifyVars, windowVars, sessionVars >>

\* .. if let Err(e) = window.set_badge_count(badge_count) { eprintln!(..) } }
BadgeSetCount(t) ==
    /\ BadgeStep(t, "badge", "return")
    /\ badge_count' = IF main_window /\ badge_thread[t].env.badge_ok
                      THEN badge_value(badge_thread[t].count) ELSE badge_count
    /\ UNCHANGED << main_tray, main_window, notification_count, tray_tooltip, window_title,
                    last_badge, count_lock, lock_log >>
    /\ UNCHANGED << buildVars, lifeVars, notifyVars, windowVars, sessionVars >>

\* Ok(()): the guard is dropped at the end of the body.
BadgeReturn(t) ==
    /\ BadgeStep(t, "return", "done")
    /\ count_lock' = IF count_lock = Some(t) THEN None ELSE count_lock
    /\ UNCHANGED << main_tray, main_window, notification_count, tray_tooltip, window_title,
                    badge_count, last_badge, lock_log >>
    /\ UNCHANGED << buildVars, lifeVars, notifyVars, windowVars, sessionVars >>

----------------------------------------------------------------------------
(* Reactivation coordinator: activate_app_window and the tray show actions *)

WindowState == [visible : BOOLEAN, minimized : BOOLEAN, focused : BOOLEAN]

FullyActivated(w) == w.visible /\ ~w.minimized /\ w.focused

\* Event names the setup closure listens to with activate_app_window.
ListenerEvents == {"notification-action", "notification", "tauri://notification",
                   "tauri://focus"}

\* Tray sources of an explicit show request.
TraySources == {"tray-menu-show", "tray-left-click"}

\* window.unminimize(), window.show(), window.set_focus(). A window that is
\* shown and not minimized takes the focus; whether a hidden or minimized
\* window is given the focus is up to the platform (granted).
unminimize(w) == [w EXCEPT !.minimized = FALSE]
show(w) == [w EXCEPT !.visible = TRUE]
set_focus(w, granted) ==
    [w EXCEPT !.focused = IF w.visible /\ ~w.minimized THEN TRUE ELSE (w.focused \/ granted)]

\* window.minimize(): a minimized window does not keep the focus.
minimize(w) == [w EXCEPT !.minimized = TRUE, !.focused = FALSE]

\* Premise of C23, a rule of the windowing platform and not of main.rs, which
\* only receives the event: the platform queues
\* WindowEvent::Focused(true) when a window call takes the window from
\* unfocused to focused, and not when a focused window is focused again.
FocusGained(before, after) == ~before.focused /\ after.focused

\* NSApp().activateIgnoringOtherApps_(YES): the application is brought to the
\* foreground. Its window, when shown and not minimized, takes the focus;
\* whether a hidden or minimized window is given the focus is up to the
\* platform (granted).
activateIgnoringOtherApps(w, granted) ==
    [w EXCEPT !.focused = IF w.visible /\ ~w.minimized THEN TRUE ELSE (w.focused \/ granted)]

\* One call on the main window.
WindowCall(w, call, granted) ==
    CASE call = "unminimize" -> unminimize(w)
      [] call = "show"       -> show(w)
      [] call = "set_focus"  -> set_focus(w, granted)
      [] call = "minimize"   -> minimize(w)
      [] call = "activate_app" -> activateIgnoringOtherApps(w, granted)

\* The calls of a handler, one after the other: the window they leave and
\* whether one of them made the platform queue Focused(true).
RECURSIVE WindowCalls(_, _, _)
WindowCalls(st, calls, granted) ==
    IF calls = << >> THEN st
    ELSE LET w == WindowCall(st.w, Head(calls), granted) IN
         WindowCalls([w |-> w, gained |-> st.gained \/ FocusGained(st.w, w)],
                     Tail(calls), granted)

\* #[cfg(target_os = "macos")]: on macOS activate_app_window also activates
\* the application at system level, after the window calls.
SystemActivate == IF target_os = "macos" THEN << "activate_app" >> ELSE << >>

\* Mutant: the window is not unminimized.
ActivateCalls_NoUnminimize == << "show", "set_focus" >> \o SystemActivate

\* Mutant: the window is minimized where it should be unminimized.
ActivateCalls_Minimize == << "minimize", "show", "set_focus" >> \o SystemActivate

\* The calls of activate_app_window, in the order of the code.
ActivateCalls == << "unminimize", "show", "set_focus" >> \o SystemActivate

\* The calls of the tray menu item "show" and of the tray left-button release.
TrayShowCalls == << "show", "set_focus" >>

\* `if let Some(window) = app.get_webview_window("main")`: the calls are made
\* on the main window, if there is one.
OnMainWindow(w, calls, granted) ==
    IF main_window THEN WindowCalls([w |-> w, gained |-> FALSE], calls, granted)
    ELSE [w |-> w, gained |-> FALSE]

\* activate_app_window: unminimize, show and focus the main window, if there is
\* one, and on macOS activate the application.
activate_app_window(w, granted) == OnMainWindow(w, ActivateCalls, granted).w

\* The tray menu item "show" and the tray left-button release: show and focus
\* the main window, if there is one.
tray_show(w, granted) == OnMainWindow(w, TrayShowCalls, granted).w

InitWindow ==
    /\ window \in {w \in WindowState : ~w.minimized /\ (w.focused => w.visible)}
    /\ focus_event = FALSE
    /\ last_event = None
    /\ focus_chain = 0

\* A handler ran: the window it leaves, the Focused(true) event queued when one
\* of its calls gave the window the focus, and the record of the handler.
Handled(source, via_activate, w, gained) ==
    /\ window' = w
    /\ focus_event' = (focus_event \/ gained)
    /\ last_event' = Some([source |-> source, via_activate |-> via_activate,
                           before |-> window])
    /\ focus_chain' = 0

\* One of the app.listen(..) closures of setup receives its event.
ListenerEvent ==
    /\ Dispatching
    /\ \E name \in ListenerEvents, granted \in BOOLEAN :
         Handled(name, TRUE, activate_app_window(window, granted),
                 OnMainWindow(window, ActivateCalls, granted).gained)
    /\ UNCHANGED << buildVars, lifeVars, notifyVars, badgeVars, sessionVars >>

\* window.on_window_event: WindowEvent::Focused(true) is dispatched, and the
\* handler calls activate_app_window whatever the state of the window.
WindowFocused ==
    /\ Dispatching
    /\ focus_event
    /\ \E granted \in BOOLEAN :
         /\ window' = activate_app_window(window, granted)
         /\ focus_event' = OnMainWindow(window, ActivateCalls, granted).gained
         /\ last_event' = Some([source |-> "window-focused", via_activate |-> TRUE,
                                before |-> window])
         /\ focus_chain' = IF focus_chain < MaxChain THEN focus_chain + 1 ELSE MaxChain
    /\ UNCHANGED << buildVars, lifeVars, notifyVars, badgeVars, sessionVars >>

\* on_menu_event "show" and on_tray_icon_event Click { Left, Up }.
TrayShow ==
    /\ Dispatching
    /\ \E source \in TraySources, granted \in BOOLEAN :
         Handled(source, FALSE, tray_show(window, granted),
                 OnMainWindow(window, TrayShowCalls, granted).gained)
    /\ UNCHANGED << buildVars, lifeVars, notifyVars, badgeVars, sessionVars >>

\* IPC command window_minimize.
WindowMinimize ==
    /\ Dispatching
    /\ Handled("window_minimize", FALSE, minimize(window), FALSE)
    /\ UNCHANGED << buildVars, lifeVars, notifyVars, badgeVars, sessionVars >>

\* The user gives the focus to the window, or takes it away.
UserFocus ==
    /\ Dispatching
    /\ window.visible /\ ~window.minimized
    /\ \E f \in BOOLEAN :
         /\ f # window.focused
         /\ Handled("user-focus", FALSE, [window EXCEPT !.focused = f],
                    FocusGained(window, [window EXCEPT !.focused = f]))
    /\ UNCHANGED << buildVars, lifeVars, notifyVars, badgeVars, sessionVars >>

----------------------------------------------------------------------------
(* Session store adapter: the session_* commands on the store "session.json" *)

Keys == {"authToken", "k"}
Values == {"v1", "v2"}

\* serde_json::json!(value) of a String, and Value::as_str.
json(v) == [t |-> "String", s |-> v]
as_str(j) == IF j.t = "String" THEN Some(j.s) ELSE None

\* The store's map, a function from the keys it holds to JSON values.
EmptyMap == [k \in {} |-> json("")]
MapSet(m, key, j) == [k \in DOMAIN m \cup {key} |-> IF k = key THEN j ELSE m[k]]
MapDelete(m, key) == [k \in DOMAIN m \ {key} |-> m[k]]
Maps == UNION {[D -> {json(v) : v \in Values}] : D \in SUBSET Keys}

\* Whether loading the store and writing the blob succeed.
SessionEnv == [open_ok : BOOLEAN, save_ok : BOOLEAN]

\* The store as a value: [open, mem, disk].
Store == [open |-> store_open, mem |-> session_mem, disk |-> session_disk]

SessionOk(st, ret) == [st |-> st, ok |-> TRUE, err |-> "", ret |-> ret]
SessionErr(st, err) == [st |-> st, ok |-> FALSE, err |-> err, ret |-> None]

\* app.store("session.json"): the store already loaded in this process, or
\* the blob loaded from disk on first access; loading may fail.
app_store(st, env) ==
    IF st.open
    THEN [ok |-> TRUE, st |-> st]
    ELSE IF env.open_ok
    THEN [ok |-> TRUE, st |-> [st EXCEPT !.open = TRUE, !.mem = st.disk]]
    ELSE [ok |-> FALSE, st |-> st]

\* Mutant: save reports success without writing the blob.
store_save_Buffered(st, env) == [ok |-> TRUE, st |-> st]

\* Mutant: a save that fails has already replaced the blob.
store_save_FailsAfterWrite(st, env) == [ok |-> env.save_ok, st |-> [st EXCEPT !.disk = st.mem]]

\* store.save(): write the in-memory map to the blob; a failed write leaves
\* the blob as it was.
store_save(st, env) ==
    IF env.save_ok
    THEN [ok |-> TRUE, st |-> [st EXCEPT !.disk = st.mem]]
    ELSE [ok |-> FALSE, st |-> st]

\* The common shape of the mutating commands: open the store (?), change the
\* in-memory map, save (?), Ok(true).
Mutate(st, env, mem) ==
    LET o == app_store(st, env) IN
    IF ~o.ok
    THEN SessionErr(st, "open")
    ELSE LET w == store_save([o.st EXCEPT !.mem = mem], env) IN
         IF w.ok THEN SessionOk(w.st, None) ELSE SessionErr(w.st, "save")

\* The map a mutating command works on: the loaded one, or the blob it loads.
Loaded(st) == IF st.open THEN st.mem ELSE st.disk

session_get(st, key, env) ==
    LET o == app_store(st, env) IN
    IF ~o.ok
    THEN SessionErr(st, "open")
    ELSE SessionOk(o.st, IF key \in DOMAIN o.st.mem THEN as_str(o.st.mem[key]) ELSE None)

session_set(st, key, value, env) == Mutate(st, env, MapSet(Loaded(st), key, json(value)))

\* Mutant: delete removes nothing.
session_delete_Keeps(st, key, env) == Mutate(st, env, Loaded(st))

session_delete(st, key, env) == Mutate(st, env, MapDelete(Loaded(st), key))

session_clear(st, env) == Mutate(st, env, EmptyMap)

session_get_token(st, env) ==
    LET o == app_store(st, env) IN
    IF ~o.ok
    THEN SessionErr(st, "open")
    ELSE SessionOk(o.st, IF "authToken" \in DOMAIN o.st.mem
                         THEN as_str(o.st.mem["authToken"]) ELSE None)

\* Mutant: the token is written under another key.
session_set_token_OtherKey(st, token, env) ==
    Mutate(st, env, MapSet(Loaded(st), "k", json(token)))

session_set_token(st, token, env) ==
    Mutate(st, env, MapSet(Loaded(st), "authToken", json(token)))

session_delete_token(st, env) == Mutate(st, env, MapDelete(Loaded(st), "authToken"))

\* The process starts with the store not loaded; the blob holds what earlier
\* runs saved.
InitSession ==
    /\ store_open = FALSE
    /\ session_mem = EmptyMap
    /\ session_disk \in Maps
    /\ last_session = None

\* A session command ran: the store it leaves and the record of the call.
SessionDone(op, key, value, env, r) ==
    /\ store_open' = r.st.open
    /\ session_mem' = r.st.mem
    /\ session_disk' = r.st.disk
    /\ last_session' = Some([op |-> op, key |-> key, value |-> value, env |-> env,
                             pre |-> Store, ok |-> r.ok, err |-> r.err, ret |-> r.ret])

SessionGet ==
    /\ pc = "running"
    /\ \E key \in Keys, env \in SessionEnv :
         SessionDone("get", key, "", env, session_get(Store, key, env))
    /\ UNCHANGED << buildVars, lifeVars, notifyVars, badgeVars, windowVars >>

SessionSet ==
    /\ pc = "running"
    /\ \E key \in Keys, value \in Values, env \in SessionEnv :
         SessionDone("set", key, value, env, session_set(Store, key, value, env))
    /\ UNCHANGED << buildVars, lifeVars, notifyVars, badgeVars, windowVars >>

SessionDelete ==
    /\ pc = "running"
    /\ \E key \in Keys, env \in SessionEnv :
         SessionDone("delete", key, "", env, session_delete(Store, key, env))
    /\ UNCHANGED << buildVars, lifeVars, notifyVars, badgeVars, windowVars >>

SessionClear ==
    /\ pc = "running"
    /\ \E env \in SessionEnv :
         SessionDone("clear", "", "", env, session_clear(Store, env))
    /\ UNCHANGED << buildVars, lifeVars, notifyVars, badgeVars, windowVars >>

SessionGetToken ==
    /\ pc = "running"
    /\ \E env \in SessionEnv :
         SessionDone("get_token", "authToken", "", env, session_get_token(Store, env))
    /\ UNCHANGED << buildVars, lifeVars, notifyVars, badgeVars, windowVars >>

SessionSetToken ==
    /\ pc = "running"
    /\ \E token \in Values, env \in SessionEnv :
         SessionDone("set_token", "authToken", token, env,
                     session_set_token(Store, token, env))
    /\ UNCHANGED << buildVars, lifeVars, notifyVars, badgeVars, windowVars >>

SessionDeleteToken ==
    /\ pc = "running"
    /\ \E env \in SessionEnv :
         SessionDone("delete_token", "authToken", "", env, session_delete_token(Store, env))
    /\ UNCHANGED << buildVars, lifeVars, notifyVars, badgeVars, windowVars >>

----------------------------------------------------------------------------
(* Specifications *)

\* Values of the variables a specification does not move.
IdleNotify == InitNotify
IdleBadge ==
    /\ InitBadge
    /\ main_window = TRUE
IdleWindow ==
    /\ InitWindow
    /\ FullyActivated(window)
IdleSession ==
    /\ InitSession
    /\ session_disk = EmptyMap

\* The state in which setup returns when every step of it succeeded.
StartEnvOk ==
    [resource_dir_ok |-> TRUE, server_dir_exists |-> TRUE, node_path_ok |-> TRUE,
     node_exists |-> TRUE, script_utf8 |-> TRUE, spawn_ok |-> TRUE, child_pid |-> 1]

Running ==
    /\ pc = "running"
    /\ start_env = Some(Consulted(StartEnvOk, start_server(StartEnvOk)))
    /\ start_result = << start_server(StartEnvOk) >>
    /\ setup_log = << "start_server", "create_menu", "create_tray", "listen" >>
    /\ server_process = Some(start_server(StartEnvOk).pid)
    /\ dialog_shown = FALSE
    /\ commands = << >>
    /\ stop_calls = << >>
    /\ close_events = 0

\* The application from construction to exit: setup, then close-requested
\* events and the tray quit item.
Init == InitBuild /\ InitLife /\ IdleNotify /\ IdleBadge /\ InitWindow /\ IdleSession
Next ==
    \/ SetupStartServer
    \/ SetupSettleWait
    \/ SetupErrorDialogClosed
    \/ SetupCreateMenu
    \/ SetupCreateTray
    \/ SetupListen
    \/ CloseRequested
    \/ TrayQuit
    \/ ListenerEvent
    \/ WindowFocused
    \/ TrayShow
    \/ WindowMinimize
    \/ UserFocus
Spec == Init /\ [][Next]_vars

\* The running application serving show_notification commands.
\* show_notification has no platform branch: one platform stands for all.
InitShow ==
    /\ InitBuild /\ target_os = "linux" /\ Running /\ InitNotify /\ IdleBadge
    /\ IdleWindow /\ IdleSession
NextShow == ShowNotification
SpecShow == InitShow /\ [][NextShow]_vars

\* The running application serving update_notification_badge commands.
InitBadgeSpec == InitBuild /\ Running /\ IdleNotify /\ InitBadge /\ IdleWindow /\ IdleSession
NextBadge == UpdateNotificationBadge
SpecBadge == InitBadgeSpec /\ [][NextBadge]_vars

\* The running application serving the session commands. They have no
\* platform or build branch: one build stands for all.
InitSessionSpec ==
    /\ InitBuild /\ target_os = "linux" /\ ~debug_assertions /\ Running /\ IdleNotify
    /\ IdleBadge /\ IdleWindow /\ InitSession
NextSession ==
    \/ SessionGet
    \/ SessionSet
    \/ SessionDelete
    \/ SessionClear
    \/ SessionGetToken
    \/ SessionSetToken
    \/ SessionDeleteToken
SpecSession == InitSessionSpec /\ [][NextSession]_vars

\* The running application serving update_notification_badge commands that
\* arrive on several threads at once. The command has no platform or build
\* branch: one build stands for all.
InitLockSpec ==
    /\ InitBuild /\ target_os = "linux" /\ ~debug_assertions /\ Running /\ IdleNotify
    /\ IdleBadge /\ IdleWindow /\ IdleSession
NextLock ==
    \/ \E t \in Threads : BadgeInvoke(t)
    \/ \E t \in Threads : BadgeLock(t)
    \/ \E t \in Threads : BadgeTooltip(t)
    \/ \E t \in Threads : BadgeTitle(t)
    \/ \E t \in Threads : BadgeSetCount(t)
    \/ \E t \in Threads : BadgeReturn(t)
SpecLock == InitLockSpec /\ [][NextLock]_vars

----------------------------------------------------------------------------
(* Properties: backend termination at shutdown *)

\* The commands stop_server ran for pid.
KillsOf(pid) == {i \in 1..Len(commands) : commands[i].pid = pid}

\* C1 (as stated): when the application has exited and a backend pid was
\* recorded, the terminate signal was sent to that pid exactly once if it is
\* non-zero, and no signal was sent at all if it is the sentinel 0.
C1_TerminatedExactlyOnce ==
    (pc = "exited" /\ server_process # None) =>
        IF server_process[1] = 0
        THEN commands = << >>
        ELSE Cardinality(KillsOf(server_process[1])) = 1

\* C2 (as stated): on every shutdown path, when a backend with non-zero pid
\* was recorded, its termination was attempted before the application exited.
C2_TerminationAttemptedBeforeExit ==
    (pc = "exited" /\ server_process # None /\ server_process[1] # 0) =>
        KillsOf(server_process[1]) # {}

\* C3: stop_server(0) runs no kill / taskkill command and returns: no command
\* is ever run for pid 0, and while the sentinel is the recorded handle every
\* close-requested handler has completed without running any command.
C3_SentinelNeverSignalled ==
    /\ \A i \in 1..Len(commands) : commands[i].pid # 0
    /\ server_process = Some(0) =>
         /\ commands = << >>
         /\ Len(stop_calls) = close_events

C3_Witness ==
    /\ server_process = Some(0)
    /\ Len(stop_calls) > 0
    /\ stop_calls[1] = 0
    /\ commands = << >>

\* C4: every command stop_server runs for a non-zero pid delivers a forceful
\* termination, not a request the process may handle or ignore, on every
\* platform: Windows, macOS and Linux.
C4_ForcefulOnEveryPlatform ==
    \A i \in 1..Len(commands) : Forceful(commands[i])

----------------------------------------------------------------------------
(* Properties: show_notification *)

\* The last invocation got past the permission request with Granted.
ShowGranted ==
    /\ last_show # << >>
    /\ last_show[1].requested
    /\ last_show[1].env.request = "Granted"

\* The icon path was resolved (always in development; resource_dir() in production).
IconPathResolved == debug_assertions \/ last_show[1].env.resource_dir_ok

\* C5: when request_permission returns a state other than Granted, show fails
\* with the permission error and makes no display attempt, with or without icon.
C5_NotGrantedNoDisplay ==
    (/\ last_show # << >>
     /\ last_show[1].requested
     /\ last_show[1].env.request \in PermissionState \ {"Granted"}) =>
        /\ ~last_show[1].ok
        /\ last_show[1].err = "Notification permission not granted"
        /\ last_show[1].attempts = << >>

C5_Witness ==
    /\ last_show # << >>
    /\ last_show[1].requested
    /\ last_show[1].env.request = "Prompt"
    /\ last_show[1].env.icon_exists
    /\ ~last_show[1].ok

\* C6 (as stated): every invocation of show calls request_permission,
\* whatever the outcome of the current-state query.
C6_AlwaysRequests ==
    last_show # << >> => last_show[1].requested

\* C6 (amended): an invocation of show calls request_permission exactly when
\* its current-state query did not fail, whatever state the query reported and
\* whatever earlier invocations returned; a display is attempted only after a
\* request that returned Granted; and the permission error is returned exactly
\* when this invocation's own request returned a state other than Granted.
C6_RequestsUnlessQueryFails ==
    last_show # << >> =>
        /\ last_show[1].requested <=> last_show[1].env.query # "Error"
        /\ last_show[1].attempts # << >> =>
             /\ last_show[1].requested
             /\ last_show[1].env.request = "Granted"
        /\ last_show[1].requested =>
             (last_show[1].err = "Notification permission not granted"
                <=> last_show[1].env.request \in {"Denied", "Prompt"})

C6_Witness ==
    /\ prev_show = Some("Notification permission not granted")
    /\ last_show # << >>
    /\ last_show[1].env.query = "Denied"
    /\ last_show[1].requested
    /\ last_show[1].env.request = "Granted"
    /\ last_show[1].ok

\* C7: with permission Granted and no icon file on disk, show makes no display
\* attempt with icon, makes one attempt without icon for the same title and
\* body, and succeeds exactly when that attempt succeeds.
C7_MissingIconFallsBack ==
    (ShowGranted /\ ~last_show[1].env.icon_exists) =>
        /\ last_show[1].attempts =
             << Display(FALSE, last_show[1].title, last_show[1].body,
                        last_show[1].env.plain_show_ok) >>
        /\ last_show[1].ok <=> last_show[1].env.plain_show_ok

C7_Witness ==
    /\ ShowGranted
    /\ IconPathResolved
    /\ ~last_show[1].env.icon_exists
    /\ Len(last_show[1].attempts) = 1
    /\ last_show[1].ok

\* C8: with permission Granted, the icon present and the display with icon
\* failing, show then displays the same title and body without icon; and show
\* returns the display error exactly when the attempt without icon was made
\* and failed.
C8_IconFailureFallsBack ==
    /\ (ShowGranted /\ IconPathResolved /\ last_show[1].env.icon_exists
          /\ ~last_show[1].env.icon_show_ok) =>
         last_show[1].attempts =
            << Display(TRUE, last_show[1].title, last_show[1].body, FALSE),
               Display(FALSE, last_show[1].title, last_show[1].body,
                       last_show[1].env.plain_show_ok) >>
    /\ last_show # << >> =>
         (last_show[1].err = "Failed to show notification"
            <=> \E i \in 1..Len(last_show[1].attempts) :
                   /\ ~last_show[1].attempts[i].icon
                   /\ ~last_show[1].attempts[i].ok)

C8_Witness ==
    /\ ShowGranted
    /\ IconPathResolved
    /\ last_show[1].env.icon_exists
    /\ ~last_show[1].env.icon_show_ok
    /\ Len(last_show[1].attempts) = 2
    /\ last_show[1].ok

----------------------------------------------------------------------------
(* Properties: update_notification_badge *)

ExpectedTooltip(c) ==
    IF c = 0 THEN "Unpod"
    ELSE IF c = 1 THEN "Unpod - 1 unread notification"
    ELSE "Unpod - " \o ToString(c) \o " unread notifications"

ExpectedTitle(c) == IF c = 0 THEN "Unpod" ELSE "(" \o ToString(c) \o ") Unpod"

\* create_tray has built the tray icon of the application.
TrayBuilt == \E i \in 1..Len(setup_log) : setup_log[i] = "create_tray"

\* C9: after update_notification_badge(c) with the tray built and the main
\* window present, and every setter that was called succeeding, the tooltip
\* of the tray is "Unpod" for c = 0, "Unpod - 1 unread notification" for
\* c = 1 and "Unpod - c unread notifications" for c > 1; the title of the
\* window is "Unpod" for c = 0 and "(c) Unpod" otherwise; the badge is cleared
\* for c = 0 and set to c otherwise, whatever the earlier counts.
C9_BadgeSurfaces ==
    (last_badge # << >> /\ TrayBuilt /\ main_window /\ last_badge[1].env = BadgeEnvOk) =>
        LET c == last_badge[1].count IN
        /\ tray_tooltip = ExpectedTooltip(c)
        /\ window_title = ExpectedTitle(c)
        /\ badge_count = (IF c = 0 THEN None ELSE Some(c))

\* C10: the three surface updates are attempted independently. After
\* update_notification_badge(c) with the tray built and the main window
\* present, in which a setter failed, the command returned Ok, the count c is
\* stored, each of the three setters was called, and every setter that did
\* not fail itself has taken effect: tooltip, title and badge alike.
C10_SurfacesIndependent ==
    (/\ last_badge # << >>
     /\ TrayBuilt
     /\ main_window
     /\ last_badge[1].env # BadgeEnvOk) =>
        LET c == last_badge[1].count
            env == last_badge[1].env IN
        /\ last_badge[1].ok
        /\ notification_count = c
        /\ last_badge[1].tooltip_call = Some(tooltip_text(c))
        /\ last_badge[1].title_call = Some(title_text(c))
        /\ last_badge[1].badge_call = Some(badge_value(c))
        /\ env.tooltip_ok => tray_tooltip = tooltip_text(c)
        /\ env.title_ok => window_title = title_text(c)
        /\ env.badge_ok => badge_count = badge_value(c)

----------------------------------------------------------------------------
(* Properties: session store *)

MutatingOps == {"set", "delete", "clear", "set_token", "delete_token"}

OkEnv == [open_ok |-> TRUE, save_ok |-> TRUE]

\* What get(key) returns now, and what it would have returned before the last command.
GetNow(key, env) == session_get(Store, key, env)
GetBefore(key) == session_get(last_session[1].pre, key, OkEnv).ret

\* C11: after a successful set(k, v), get(k) returns v; after a successful
\* delete(k), get(k) returns nothing; after a successful clear(), get of every
\* key returns nothing; set and delete of k leave get of every other key as it
\* was; and a get command returns the value held for its key. This holds
\* after any sequence of earlier session commands.
C11_SessionRoundTrip ==
    (last_session # None /\ last_session[1].ok) =>
        LET l == last_session[1] IN
        /\ l.op = "set" =>
             \A env \in SessionEnv :
                /\ GetNow(l.key, env).ok
                /\ GetNow(l.key, env).ret = Some(l.value)
        /\ l.op = "delete" =>
             \A env \in SessionEnv :
                /\ GetNow(l.key, env).ok
                /\ GetNow(l.key, env).ret = None
        /\ l.op = "clear" =>
             \A k \in Keys, env \in SessionEnv :
                /\ GetNow(k, env).ok
                /\ GetNow(k, env).ret = None
        /\ l.op \in {"set", "delete"} =>
             \A k \in Keys \ {l.key} : GetNow(k, OkEnv).ret = GetBefore(k)
        /\ l.op = "get" =>
             l.ret = (IF l.key \in DOMAIN session_mem
                      THEN Some(session_mem[l.key].s) ELSE None)

C11_Witness ==
    /\ last_session # None
    /\ last_session[1].ok
    /\ last_session[1].op = "delete"
    /\ last_session[1].key = "k"
    /\ GetBefore("k") = Some("v2")
    /\ GetBefore("authToken") = Some("v1")
    /\ GetNow("authToken", OkEnv).ret = Some("v1")

\* C12: a mutating session command returns success only when the blob has
\* been written and holds the mutation (the blob equals the in-memory map, the
\* set key holds the value, the deleted key is absent, a cleared store is
\* empty); when the write fails the command returns an error.
C12_SuccessMeansPersisted ==
    (last_session # None /\ last_session[1].op \in MutatingOps) =>
        LET l == last_session[1] IN
        /\ ~l.env.save_ok => ~l.ok
        /\ l.ok =>
             /\ store_open
             /\ session_disk = session_mem
             /\ l.op \in {"set", "set_token"} =>
                  (l.key \in DOMAIN session_disk /\ session_disk[l.key] = json(l.value))
             /\ l.op \in {"delete", "delete_token"} => l.key \notin DOMAIN session_disk
             /\ l.op = "clear" => session_disk = EmptyMap
             /\ l.op # "clear" =>
                  \A k \in Keys \ {l.key} :
                     /\ k \in DOMAIN session_disk <=> k \in DOMAIN Loaded(l.pre)
                     /\ k \in DOMAIN session_disk => session_disk[k] = Loaded(l.pre)[k]

C12_Witness ==
    /\ last_session # None
    /\ last_session[1].op = "set"
    /\ last_session[1].ok
    /\ last_session[1].key \notin DOMAIN last_session[1].pre.disk
    /\ last_session[1].key \in DOMAIN session_disk
    /\ session_disk[last_session[1].key] = json(last_session[1].value)

\* C19: the token commands work on the key "authToken" of the same store:
\* after set_token(t), get("authToken") returns t; after set("authToken", t),
\* get_token() returns t; delete_token() does what delete("authToken") does;
\* after clear(), get_token() returns nothing; get_token() returns what is
\* held under "authToken"; and a token command leaves every other key alone.
C19_TokenIsReservedKey ==
    last_session # None =>
        LET l == last_session[1] IN
        /\ (l.op = "set_token" /\ l.ok) =>
             \A env \in SessionEnv : GetNow("authToken", env).ret = Some(l.value)
        /\ (l.op = "set" /\ l.key = "authToken" /\ l.ok) =>
             \A env \in SessionEnv : session_get_token(Store, env).ret = Some(l.value)
        /\ l.op = "delete_token" =>
             LET d == session_delete(l.pre, "authToken", l.env) IN
             /\ Store = d.st
             /\ l.ok = d.ok
             /\ l.err = d.err
        /\ (l.op = "clear" /\ l.ok) =>
             \A env \in SessionEnv : session_get_token(Store, env).ret = None
        /\ (l.op = "get_token" /\ l.ok) =>
             l.ret = (IF "authToken" \in DOMAIN session_mem
                      THEN Some(session_mem["authToken"].s) ELSE None)
        /\ l.op \in {"set_token", "delete_token", "get_token"} =>
             \A k \in Keys \ {"authToken"} : GetNow(k, OkEnv).ret = GetBefore(k)

C19_Witness ==
    /\ last_session # None
    /\ last_session[1].op = "set_token"
    /\ last_session[1].ok
    /\ last_session[1].value = "v2"
    /\ GetBefore("authToken") = Some("v1")
    /\ GetNow("authToken", OkEnv).ret = Some("v2")
    /\ GetNow("k", OkEnv).ret = Some("v1")

\* C20 (as stated): a mutating session command that returns an error leaves
\* get of every key as it was before the call.
C20_FailedMutationInvisible ==
    (last_session # None /\ last_session[1].op \in MutatingOps /\ ~last_session[1].ok) =>
        \A k \in Keys : GetNow(k, OkEnv).ret = GetBefore(k)

\* The in-memory map a mutating command puts in place of m.
Mutation(l, m) ==
    CASE l.op \in {"set", "set_token"} -> MapSet(m, l.key, json(l.value))
      [] l.op \in {"delete", "delete_token"} -> MapDelete(m, l.key)
      [] l.op = "clear" -> EmptyMap

\* C20 (amended): a mutating session command that returns an error leaves the
\* durable blob as it was. When it failed opening the store, the store is
\* unchanged and get returns what it returned before; when it failed saving,
\* the in-memory map already holds the mutation, so get returns the mutated
\* value while the blob does not hold it.
C20_FailedMutationKeepsBlob ==
    (last_session # None /\ last_session[1].op \in MutatingOps /\ ~last_session[1].ok) =>
        LET l == last_session[1] IN
        /\ session_disk = l.pre.disk
        /\ l.err \in {"open", "save"}
        /\ l.err = "open" =>
             /\ Store = l.pre
             /\ ~store_open
        /\ l.err = "save" =>
             /\ store_open
             /\ session_mem = Mutation(l, Loaded(l.pre))

C20_Witness ==
    /\ last_session # None
    /\ last_session[1].op = "set"
    /\ last_session[1].err = "save"
    /\ last_session[1].key \notin DOMAIN session_disk
    /\ GetBefore(last_session[1].key) = None
    /\ GetNow(last_session[1].key, OkEnv).ret = Some(last_session[1].value)

----------------------------------------------------------------------------
(* Properties: activation *)

ActivationSources == ListenerEvents \cup {"window-focused"} \cup TraySources

\* C13: whatever the window state before (hidden, minimized, unfocused) and
\* whatever handlers ran earlier and in which order, a handler that calls
\* activate_app_window leaves the one state visible, unminimized and focused,
\* and activating again from there changes nothing.
C13_ActivateIdempotent ==
    (last_event # None /\ last_event[1].via_activate) =>
        /\ window = [visible |-> TRUE, minimized |-> FALSE, focused |-> TRUE]
        /\ \A granted \in BOOLEAN :
              /\ activate_app_window(window, granted) = window
              /\ activate_app_window(last_event[1].before, granted) = window

C13_Witness ==
    /\ last_event # None
    /\ last_event[1].source = "notification"
    /\ last_event[1].before = [visible |-> FALSE, minimized |-> TRUE, focused |-> FALSE]
    /\ FullyActivated(window)

\* C14 (as stated): every activation source goes through activate(), so once
\* the handler of any of them has run, and the focus event it caused has been
\* handled, the window is visible, unminimized and focused.
C14_EverySourceActivates ==
    (last_event # None /\ last_event[1].source \in ActivationSources /\ ~focus_event) =>
        FullyActivated(window)

----------------------------------------------------------------------------
(* Properties: backend start and the order of setup *)

StartAsked(call) == Asked(start_result[1].trace, call)

\* Position of a call in the trace of start_server (0 when it was not made).
StartIndex(call) ==
    IF StartAsked(call)
    THEN CHOOSE i \in 1..Len(start_result[1].trace) : start_result[1].trace[i] = call
    ELSE 0

SetupOrder == << "start_server", "create_menu", "create_tray", "listen" >>

\* C15: in a development build start_server returns Ok(0) having made no
\* directory or binary check, no path resolution, no spawn and no settle wait,
\* and setup records Some(0).
C15_DevelopmentSentinel ==
    (debug_assertions /\ start_result # << >>) =>
        /\ start_result[1].ok
        /\ start_result[1].pid = 0
        /\ start_result[1].trace = << >>
        /\ pc # "settle_wait"
        /\ server_process = Some(0)

C15_Witness ==
    /\ debug_assertions
    /\ pc = "running"
    /\ start_result # << >>
    /\ server_process = Some(0)

\* C16: in a production build, a missing server directory makes start_server
\* fail before the runtime binary is resolved or checked; with the directory
\* present, a missing runtime binary makes it fail; neither failure spawns a
\* process; and a process is spawned, and its non-zero pid returned, only
\* when the directory was found and then the binary was found.
C16_ProductionStartOrder ==
    (~debug_assertions /\ start_result # << >>) =>
        LET r == start_result[1]
            e == start_env[1] IN
        /\ (StartAsked("exists(server_dir)") /\ ~e.server_dir_exists) =>
             /\ ~r.ok
             /\ r.err = "Server directory not found"
             /\ ~StartAsked("resolve(node_path)")
             /\ ~StartAsked("exists(node_path)")
             /\ ~StartAsked("spawn")
        /\ (StartAsked("exists(node_path)") /\ ~e.node_exists) =>
             /\ ~r.ok
             /\ r.err = "Bundled Node.js not found"
             /\ e.server_dir_exists
             /\ ~StartAsked("spawn")
        /\ StartAsked("spawn") =>
             /\ e.server_dir_exists
             /\ e.node_exists
             /\ 0 < StartIndex("exists(server_dir)")
             /\ StartIndex("exists(server_dir)") < StartIndex("resolve(node_path)")
             /\ StartIndex("resolve(node_path)") < StartIndex("exists(node_path)")
             /\ StartIndex("exists(node_path)") < StartIndex("spawn")
        /\ r.ok => (StartAsked("spawn") /\ e.spawn_ok /\ r.pid # 0)
        /\ ~r.ok => r.pid = 0
        /\ r.panicked => (e.server_dir_exists /\ e.node_exists /\ ~StartAsked("spawn"))

C16_Witness ==
    /\ ~debug_assertions
    /\ start_result # << >>
    /\ StartAsked("exists(node_path)")
    /\ ~start_env[1].node_exists
    /\ start_env[1].server_dir_exists
    /\ start_result[1].err = "Bundled Node.js not found"

\* C17: setup completes the backend launch (with its settle wait), then the
\* menu, then the tray, then the subscriptions, in this order; the event loop
\* runs only after all four; and no callback has run before the launch
\* attempt was over and its pid, if any, recorded.
C17_StartupOrder ==
    /\ Len(setup_log) <= Len(SetupOrder)
    /\ \A i \in 1..Len(setup_log) : setup_log[i] = SetupOrder[i]
    /\ pc = "settle_wait" => setup_log = << >>
    /\ pc \in {"running", "exited"} => setup_log = SetupOrder
    /\ (close_events > 0 \/ last_event # None \/ pc = "exited") =>
         /\ setup_log = SetupOrder
         /\ start_result # << >>
         /\ Spawned(start_result[1]) => server_process = Some(start_result[1].pid)

C17_Witness ==
    /\ pc = "running"
    /\ setup_log = SetupOrder
    /\ Spawned(start_result[1])
    /\ last_event # None
    /\ close_events > 0

\* The callbacks the event loop dispatches.
EventNext ==
    \/ CloseRequested
    \/ TrayQuit
    \/ ListenerEvent
    \/ WindowFocused
    \/ TrayShow
    \/ WindowMinimize
    \/ UserFocus

\* C18 (as stated): while the settle wait of start_server is in progress the
\* main loop can dispatch events.
C18_LoopFreeDuringWait ==
    pc = "settle_wait" => ENABLED EventNext

\* C18 (amended): the settle wait is a blocking sleep inside start_server,
\* which setup calls on the thread of the event loop: while it is in progress
\* no callback is dispatched, and the only step possible is the end of the wait.
C18_WaitBlocksLoop ==
    pc = "settle_wait" =>
        /\ ~ENABLED EventNext
        /\ ENABLED SetupSettleWait
        /\ server_process = None

C18_Witness ==
    /\ pc = "settle_wait"
    /\ Spawned(start_result[1])
    /\ start_result[1].pid = 1

----------------------------------------------------------------------------
(* Properties: concurrent badge updates *)

Quiescent == \A t \in Threads : badge_thread[t].pc \in {"idle", "done"}

\* C21: whatever the interleaving of concurrent update_notification_badge
\* commands, once all of them are complete the stored count, the tray
\* tooltip, the window title and the OS badge correspond to one and the same
\* count, that of the command that took the notification_count mutex last
\* (stated for a last command whose setters all succeeded).
C21_OneCountOnEverySurface ==
    (Quiescent /\ lock_log # << >> /\ lock_log[Len(lock_log)].env = BadgeEnvOk) =>
        LET c == lock_log[Len(lock_log)].count IN
        /\ count_lock = None
        /\ notification_count = c
        /\ tray_tooltip = ExpectedTooltip(c)
        /\ window_title = ExpectedTitle(c)
        /\ badge_count = (IF c = 0 THEN None ELSE Some(c))

----------------------------------------------------------------------------
(* Properties: display attempts of show_notification *)

\* The display attempts of the last invocation that displayed a notification.
Displayed == {i \in 1..Len(last_show[1].attempts) : last_show[1].attempts[i].ok}

\* C22: an invocation of show that returns Ok displayed exactly one
\* notification, with its last attempt; an invocation makes at most two
\* display attempts, the one with icon first; the attempt without icon is made
\* only when no attempt with icon was made or the one made failed, never after
\* an icon display that succeeded; an invocation that returns an error
\* displayed nothing.
C22_ExactlyOneDisplayed ==
    last_show # << >> =>
        LET a == last_show[1].attempts IN
        /\ Len(a) <= 2
        /\ \A i \in 1..Len(a) :
              /\ a[i].icon => i = 1
              /\ ~a[i].icon => (i = Len(a) /\ \A j \in 1..(i-1) : a[j].icon /\ ~a[j].ok)
              /\ a[i].title = last_show[1].title
              /\ a[i].body = last_show[1].body
        /\ last_show[1].ok =>
              /\ Cardinality(Displayed) = 1
              /\ Len(a) \in Displayed
        /\ ~last_show[1].ok => Displayed = {}

\* The display with icon succeeded, and the display without icon, which
\* would have succeeded too, was not attempted.
C22_Witness ==
    /\ last_show # << >>
    /\ last_show[1].ok
    /\ last_show[1].env.plain_show_ok
    /\ last_show[1].attempts = << Display(TRUE, "t2", "b1", TRUE) >>

----------------------------------------------------------------------------
(* Properties: activation settles *)

\* C23: activation does not re-trigger itself for ever. Under the premise
\* FocusGained (a Focused(true) event is queued only by a call that takes the
\* window from unfocused to focused), the calls of activate_app_window never
\* take the focus away and end with the window focused: the Focused(true)
\* event of an activation runs activate_app_window again, and this second
\* activation, on a window that is focused already, queues no further event.
\* At most two Focused(true) handlers run in a row without another event in
\* between, after them no Focused(true) event is waiting and none can be
\* dispatched, and the window is visible, unminimized and focused.
C23_ActivationSettles ==
    /\ focus_chain <= 2
    /\ focus_chain = 2 => ~focus_event
    /\ focus_chain >= 1 =>
         /\ FullyActivated(window)
         /\ last_event[1].source = "window-focused"
         /\ last_event[1].before.focused => ~focus_event
         /\ ~focus_event => ~ENABLED WindowFocused

\* The Focused(true) event of an activation was handled by a second activation
\* on the window already focused, and nothing is waiting.
C23_Witness ==
    /\ focus_chain = 1
    /\ ~focus_event
    /\ last_event[1].source = "window-focused"
    /\ last_event[1].before = [visible |-> TRUE, minimized |-> FALSE, focused |-> TRUE]
    /\ FullyActivated(window)
    /\ pc = "running"

----------------------------------------------------------------------------
(* Properties: failed backend start *)

\* The start attempt is over and gave no pid: start_server returned Err or
\* panicked.
StartFailed == start_result # << >> /\ ~start_result[1].ok

\* C24: if start_server fails at startup no pid is recorded, startup still
\* goes on to the menu, the tray and the subscriptions (setup is at, or past,
\* the end of its start_server statement; only the menu or the tray may stop
\* it later), and no close-requested event calls stop_server or runs a kill
\* command.
C24_FailedStartProceeds ==
    StartFailed =>
        /\ server_process = None
        /\ stop_calls = << >>
        /\ commands = << >>
        /\ pc \in {"error_dialog", "create_menu", "create_tray", "listen", "running",
                   "exited", "panicked"}
        /\ pc = "panicked" => (setup_log # << >> /\ setup_log[1] = "start_server")
        /\ pc = "error_dialog" => ENABLED SetupErrorDialogClosed
        /\ pc = "create_menu" => ENABLED SetupCreateMenu
        /\ pc = "create_tray" => ENABLED SetupCreateTray
        /\ pc = "listen" => ENABLED SetupListen

====
